---- MODULE Spec2Model ----
(***************************************************************************)
(* Model of ingestion/src/metadata/ingestion/source/hive.py:               *)
(*   - get_columns, the column introspection installed on HiveDialect;     *)
(*   - HiveSource.create and HiveSource.prepare.                           *)
(*                                                                         *)
(* A Python str is the sequence of its Unicode code points, so that        *)
(* strip() and the regular expression ^\w+ are computed character by       *)
(* character, on every character a str can hold.                           *)
(* A SQLAlchemy type class is named by a string ("Integer", "NullType").   *)
(***************************************************************************)
EXTENDS Integers, Sequences, FiniteSets, TLC

VARIABLES
    described,        \* the list self._get_table_columns(connection, table_name, schema) returns
    db_connection,    \* the connection get_columns is given (its parameter connection)
    pc,               \* get_columns: "called", "returned" or "raised"
    result,           \* the list get_columns returned (<<>> until it returns)
    exc,              \* the exception get_columns raised ("none" until it raises)
    warnings,         \* the warnings util.warn emitted, in order
    config_dict,      \* HiveSource.create: the configuration mapping it is given
    metadata_config,  \* HiveSource.create: the server configuration it is given
    source,           \* the HiveSource instance create returned (NoSource until then)
    create_exc,       \* the exception create raised ("none" until it raises)
    pc_src,           \* the connector: "start", "created", "failed", "super", "super_done", "prepared"
    base_ret,         \* what super().prepare() returned
    prepare_ret       \* what HiveSource.prepare returned

colvars == <<described, db_connection, pc, result, exc, warnings>>
srcvars == <<config_dict, metadata_config, source, create_exc, pc_src, base_ret, prepare_ret>>
vars == <<described, db_connection, pc, result, exc, warnings,
          config_dict, metadata_config, source, create_exc, pc_src, base_ret, prepare_ret>>

(***************************************************************************)
(* Python values                                                           *)
(***************************************************************************)

\* Python's None: no str equals it, since no element of a str is negative.
None == << -1 >>

\* bool(v) of a value that is None or a str.
Truthy(v) == v # None /\ v # <<>>

\* The characters str.strip() removes: every code point c with chr(c).isspace()
\* (tab to carriage return, the separators 28-31, space, NEL, no-break space and the
\* Unicode spaces and line separators).
Whitespace ==
    { 9, 10, 11, 12, 13, 28, 29, 30, 31, 32, 133, 160, 5760, 8192, 8193, 8194, 8195, 8196, 8197, 8198, 8199, 8200, 8201, 8202, 8232, 8233, 8239, 8287, 12288 }

\* The ranges (first, last) of the code points \w matches in a str pattern: the
\* Unicode alphanumerics (letters, decimals, digits, numerics) and "_"
\* (Unicode 14.0, the table of CPython 3.11).
WordRanges ==
    {
      <<48,57>>, <<65,90>>, <<95,95>>, <<97,122>>, <<170,170>>, <<178,179>>,
      <<181,181>>, <<185,186>>, <<188,190>>, <<192,214>>, <<216,246>>, <<248,705>>,
      <<710,721>>, <<736,740>>, <<748,748>>, <<750,750>>, <<880,884>>, <<886,887>>,
      <<890,893>>, <<895,895>>, <<902,902>>, <<904,906>>, <<908,908>>, <<910,929>>,
      <<931,1013>>, <<1015,1153>>, <<1162,1327>>, <<1329,1366>>, <<1369,1369>>, <<1376,1416>>,
      <<1488,1514>>, <<1519,1522>>, <<1568,1610>>, <<1632,1641>>, <<1646,1647>>, <<1649,1747>>,
      <<1749,1749>>, <<1765,1766>>, <<1774,1788>>, <<1791,1791>>, <<1808,1808>>, <<1810,1839>>,
      <<1869,1957>>, <<1969,1969>>, <<1984,2026>>, <<2036,2037>>, <<2042,2042>>, <<2048,2069>>,
      <<2074,2074>>, <<2084,2084>>, <<2088,2088>>, <<2112,2136>>, <<2144,2154>>, <<2160,2183>>,
      <<2185,2190>>, <<2208,2249>>, <<2308,2361>>, <<2365,2365>>, <<2384,2384>>, <<2392,2401>>,
      <<2406,2415>>, <<2417,2432>>, <<2437,2444>>, <<2447,2448>>, <<2451,2472>>, <<2474,2480>>,
      <<2482,2482>>, <<2486,2489>>, <<2493,2493>>, <<2510,2510>>, <<2524,2525>>, <<2527,2529>>,
      <<2534,2545>>, <<2548,2553>>, <<2556,2556>>, <<2565,2570>>, <<2575,2576>>, <<2579,2600>>,
      <<2602,2608>>, <<2610,2611>>, <<2613,2614>>, <<2616,2617>>, <<2649,2652>>, <<2654,2654>>,
      <<2662,2671>>, <<2674,2676>>, <<2693,2701>>, <<2703,2705>>, <<2707,2728>>, <<2730,2736>>,
      <<2738,2739>>, <<2741,2745>>, <<2749,2749>>, <<2768,2768>>, <<2784,2785>>, <<2790,2799>>,
      <<2809,2809>>, <<2821,2828>>, <<2831,2832>>, <<2835,2856>>, <<2858,2864>>, <<2866,2867>>,
      <<2869,2873>>, <<2877,2877>>, <<2908,2909>>, <<2911,2913>>, <<2918,2927>>, <<2929,2935>>,
      <<2947,2947>>, <<2949,2954>>, <<2958,2960>>, <<2962,2965>>, <<2969,2970>>, <<2972,2972>>,
      <<2974,2975>>, <<2979,2980>>, <<2984,2986>>, <<2990,3001>>, <<3024,3024>>, <<3046,3058>>,
      <<3077,3084>>, <<3086,3088>>, <<3090,3112>>, <<3114,3129>>, <<3133,3133>>, <<3160,3162>>,
      <<3165,3165>>, <<3168,3169>>, <<3174,3183>>, <<3192,3198>>, <<3200,3200>>, <<3205,3212>>,
      <<3214,3216>>, <<3218,3240>>, <<3242,3251>>, <<3253,3257>>, <<3261,3261>>, <<3293,3294>>,
      <<3296,3297>>, <<3302,3311>>, <<3313,3314>>, <<3332,3340>>, <<3342,3344>>, <<3346,3386>>,
      <<3389,3389>>, <<3406,3406>>, <<3412,3414>>, <<3416,3425>>, <<3430,3448>>, <<3450,3455>>,
      <<3461,3478>>, <<3482,3505>>, <<3507,3515>>, <<3517,3517>>, <<3520,3526>>, <<3558,3567>>,
      <<3585,3632>>, <<3634,3635>>, <<3648,3654>>, <<3664,3673>>, <<3713,3714>>, <<3716,3716>>,
      <<3718,3722>>, <<3724,3747>>, <<3749,3749>>, <<3751,3760>>, <<3762,3763>>, <<3773,3773>>,
      <<3776,3780>>, <<3782,3782>>, <<3792,3801>>, <<3804,3807>>, <<3840,3840>>, <<3872,3891>>,
      <<3904,3911>>, <<3913,3948>>, <<3976,3980>>, <<4096,4138>>, <<4159,4169>>, <<4176,4181>>,
      <<4186,4189>>, <<4193,4193>>, <<4197,4198>>, <<4206,4208>>, <<4213,4225>>, <<4238,4238>>,
      <<4240,4249>>, <<4256,4293>>, <<4295,4295>>, <<4301,4301>>, <<4304,4346>>, <<4348,4680>>,
      <<4682,4685>>, <<4688,4694>>, <<4696,4696>>, <<4698,4701>>, <<4704,4744>>, <<4746,4749>>,
      <<4752,4784>>, <<4786,4789>>, <<4792,4798>>, <<4800,4800>>, <<4802,4805>>, <<4808,4822>>,
      <<4824,4880>>, <<4882,4885>>, <<4888,4954>>, <<4969,4988>>, <<4992,5007>>, <<5024,5109>>,
      <<5112,5117>>, <<5121,5740>>, <<5743,5759>>, <<5761,5786>>, <<5792,5866>>, <<5870,5880>>,
      <<5888,5905>>, <<5919,5937>>, <<5952,5969>>, <<5984,5996>>, <<5998,6000>>, <<6016,6067>>,
      <<6103,6103>>, <<6108,6108>>, <<6112,6121>>, <<6128,6137>>, <<6160,6169>>, <<6176,6264>>,
      <<6272,6276>>, <<6279,6312>>, <<6314,6314>>, <<6320,6389>>, <<6400,6430>>, <<6470,6509>>,
      <<6512,6516>>, <<6528,6571>>, <<6576,6601>>, <<6608,6618>>, <<6656,6678>>, <<6688,6740>>,
      <<6784,6793>>, <<6800,6809>>, <<6823,6823>>, <<6917,6963>>, <<6981,6988>>, <<6992,7001>>,
      <<7043,7072>>, <<7086,7141>>, <<7168,7203>>, <<7232,7241>>, <<7245,7293>>, <<7296,7304>>,
      <<7312,7354>>, <<7357,7359>>, <<7401,7404>>, <<7406,7411>>, <<7413,7414>>, <<7418,7418>>,
      <<7424,7615>>, <<7680,7957>>, <<7960,7965>>, <<7968,8005>>, <<8008,8013>>, <<8016,8023>>,
      <<8025,8025>>, <<8027,8027>>, <<8029,8029>>, <<8031,8061>>, <<8064,8116>>, <<8118,8124>>,
      <<8126,8126>>, <<8130,8132>>, <<8134,8140>>, <<8144,8147>>, <<8150,8155>>, <<8160,8172>>,
      <<8178,8180>>, <<8182,8188>>, <<8304,8305>>, <<8308,8313>>, <<8319,8329>>, <<8336,8348>>,
      <<8450,8450>>, <<8455,8455>>, <<8458,8467>>, <<8469,8469>>, <<8473,8477>>, <<8484,8484>>,
      <<8486,8486>>, <<8488,8488>>, <<8490,8493>>, <<8495,8505>>, <<8508,8511>>, <<8517,8521>>,
      <<8526,8526>>, <<8528,8585>>, <<9312,9371>>, <<9450,9471>>, <<10102,10131>>, <<11264,11492>>,
      <<11499,11502>>, <<11506,11507>>, <<11517,11517>>, <<11520,11557>>, <<11559,11559>>, <<11565,11565>>,
      <<11568,11623>>, <<11631,11631>>, <<11648,11670>>, <<11680,11686>>, <<11688,11694>>, <<11696,11702>>,
      <<11704,11710>>, <<11712,11718>>, <<11720,11726>>, <<11728,11734>>, <<11736,11742>>, <<11823,11823>>,
      <<12293,12295>>, <<12321,12329>>, <<12337,12341>>, <<12344,12348>>, <<12353,12438>>, <<12445,12447>>,
      <<12449,12538>>, <<12540,12543>>, <<12549,12591>>, <<12593,12686>>, <<12690,12693>>, <<12704,12735>>,
      <<12784,12799>>, <<12832,12841>>, <<12872,12879>>, <<12881,12895>>, <<12928,12937>>, <<12977,12991>>,
      <<13312,19903>>, <<19968,42124>>, <<42192,42237>>, <<42240,42508>>, <<42512,42539>>, <<42560,42606>>,
      <<42623,42653>>, <<42656,42735>>, <<42775,42783>>, <<42786,42888>>, <<42891,42954>>, <<42960,42961>>,
      <<42963,42963>>, <<42965,42969>>, <<42994,43009>>, <<43011,43013>>, <<43015,43018>>, <<43020,43042>>,
      <<43056,43061>>, <<43072,43123>>, <<43138,43187>>, <<43216,43225>>, <<43250,43255>>, <<43259,43259>>,
      <<43261,43262>>, <<43264,43301>>, <<43312,43334>>, <<43360,43388>>, <<43396,43442>>, <<43471,43481>>,
      <<43488,43492>>, <<43494,43518>>, <<43520,43560>>, <<43584,43586>>, <<43588,43595>>, <<43600,43609>>,
      <<43616,43638>>, <<43642,43642>>, <<43646,43695>>, <<43697,43697>>, <<43701,43702>>, <<43705,43709>>,
      <<43712,43712>>, <<43714,43714>>, <<43739,43741>>, <<43744,43754>>, <<43762,43764>>, <<43777,43782>>,
      <<43785,43790>>, <<43793,43798>>, <<43808,43814>>, <<43816,43822>>, <<43824,43866>>, <<43868,43881>>,
      <<43888,44002>>, <<44016,44025>>, <<44032,55203>>, <<55216,55238>>, <<55243,55291>>, <<63744,64109>>,
      <<64112,64217>>, <<64256,64262>>, <<64275,64279>>, <<64285,64285>>, <<64287,64296>>, <<64298,64310>>,
      <<64312,64316>>, <<64318,64318>>, <<64320,64321>>, <<64323,64324>>, <<64326,64433>>, <<64467,64829>>,
      <<64848,64911>>, <<64914,64967>>, <<65008,65019>>, <<65136,65140>>, <<65142,65276>>, <<65296,65305>>,
      <<65313,65338>>, <<65345,65370>>, <<65382,65470>>, <<65474,65479>>, <<65482,65487>>, <<65490,65495>>,
      <<65498,65500>>, <<65536,65547>>, <<65549,65574>>, <<65576,65594>>, <<65596,65597>>, <<65599,65613>>,
      <<65616,65629>>, <<65664,65786>>, <<65799,65843>>, <<65856,65912>>, <<65930,65931>>, <<66176,66204>>,
      <<66208,66256>>, <<66273,66299>>, <<66304,66339>>, <<66349,66378>>, <<66384,66421>>, <<66432,66461>>,
      <<66464,66499>>, <<66504,66511>>, <<66513,66517>>, <<66560,66717>>, <<66720,66729>>, <<66736,66771>>,
      <<66776,66811>>, <<66816,66855>>, <<66864,66915>>, <<66928,66938>>, <<66940,66954>>, <<66956,66962>>,
      <<66964,66965>>, <<66967,66977>>, <<66979,66993>>, <<66995,67001>>, <<67003,67004>>, <<67072,67382>>,
      <<67392,67413>>, <<67424,67431>>, <<67456,67461>>, <<67463,67504>>, <<67506,67514>>, <<67584,67589>>,
      <<67592,67592>>, <<67594,67637>>, <<67639,67640>>, <<67644,67644>>, <<67647,67669>>, <<67672,67702>>,
      <<67705,67742>>, <<67751,67759>>, <<67808,67826>>, <<67828,67829>>, <<67835,67867>>, <<67872,67897>>,
      <<67968,68023>>, <<68028,68047>>, <<68050,68096>>, <<68112,68115>>, <<68117,68119>>, <<68121,68149>>,
      <<68160,68168>>, <<68192,68222>>, <<68224,68255>>, <<68288,68295>>, <<68297,68324>>, <<68331,68335>>,
      <<68352,68405>>, <<68416,68437>>, <<68440,68466>>, <<68472,68497>>, <<68521,68527>>, <<68608,68680>>,
      <<68736,68786>>, <<68800,68850>>, <<68858,68899>>, <<68912,68921>>, <<69216,69246>>, <<69248,69289>>,
      <<69296,69297>>, <<69376,69415>>, <<69424,69445>>, <<69457,69460>>, <<69488,69505>>, <<69552,69579>>,
      <<69600,69622>>, <<69635,69687>>, <<69714,69743>>, <<69745,69746>>, <<69749,69749>>, <<69763,69807>>,
      <<69840,69864>>, <<69872,69881>>, <<69891,69926>>, <<69942,69951>>, <<69956,69956>>, <<69959,69959>>,
      <<69968,70002>>, <<70006,70006>>, <<70019,70066>>, <<70081,70084>>, <<70096,70106>>, <<70108,70108>>,
      <<70113,70132>>, <<70144,70161>>, <<70163,70187>>, <<70272,70278>>, <<70280,70280>>, <<70282,70285>>,
      <<70287,70301>>, <<70303,70312>>, <<70320,70366>>, <<70384,70393>>, <<70405,70412>>, <<70415,70416>>,
      <<70419,70440>>, <<70442,70448>>, <<70450,70451>>, <<70453,70457>>, <<70461,70461>>, <<70480,70480>>,
      <<70493,70497>>, <<70656,70708>>, <<70727,70730>>, <<70736,70745>>, <<70751,70753>>, <<70784,70831>>,
      <<70852,70853>>, <<70855,70855>>, <<70864,70873>>, <<71040,71086>>, <<71128,71131>>, <<71168,71215>>,
      <<71236,71236>>, <<71248,71257>>, <<71296,71338>>, <<71352,71352>>, <<71360,71369>>, <<71424,71450>>,
      <<71472,71483>>, <<71488,71494>>, <<71680,71723>>, <<71840,71922>>, <<71935,71942>>, <<71945,71945>>,
      <<71948,71955>>, <<71957,71958>>, <<71960,71983>>, <<71999,71999>>, <<72001,72001>>, <<72016,72025>>,
      <<72096,72103>>, <<72106,72144>>, <<72161,72161>>, <<72163,72163>>, <<72192,72192>>, <<72203,72242>>,
      <<72250,72250>>, <<72272,72272>>, <<72284,72329>>, <<72349,72349>>, <<72368,72440>>, <<72704,72712>>,
      <<72714,72750>>, <<72768,72768>>, <<72784,72812>>, <<72818,72847>>, <<72960,72966>>, <<72968,72969>>,
      <<72971,73008>>, <<73030,73030>>, <<73040,73049>>, <<73056,73061>>, <<73063,73064>>, <<73066,73097>>,
      <<73112,73112>>, <<73120,73129>>, <<73440,73458>>, <<73648,73648>>, <<73664,73684>>, <<73728,74649>>,
      <<74752,74862>>, <<74880,75075>>, <<77712,77808>>, <<77824,78894>>, <<82944,83526>>, <<92160,92728>>,
      <<92736,92766>>, <<92768,92777>>, <<92784,92862>>, <<92864,92873>>, <<92880,92909>>, <<92928,92975>>,
      <<92992,92995>>, <<93008,93017>>, <<93019,93025>>, <<93027,93047>>, <<93053,93071>>, <<93760,93846>>,
      <<93952,94026>>, <<94032,94032>>, <<94099,94111>>, <<94176,94177>>, <<94179,94179>>, <<94208,100343>>,
      <<100352,101589>>, <<101632,101640>>, <<110576,110579>>, <<110581,110587>>, <<110589,110590>>, <<110592,110882>>,
      <<110928,110930>>, <<110948,110951>>, <<110960,111355>>, <<113664,113770>>, <<113776,113788>>, <<113792,113800>>,
      <<113808,113817>>, <<119520,119539>>, <<119648,119672>>, <<119808,119892>>, <<119894,119964>>, <<119966,119967>>,
      <<119970,119970>>, <<119973,119974>>, <<119977,119980>>, <<119982,119993>>, <<119995,119995>>, <<119997,120003>>,
      <<120005,120069>>, <<120071,120074>>, <<120077,120084>>, <<120086,120092>>, <<120094,120121>>, <<120123,120126>>,
      <<120128,120132>>, <<120134,120134>>, <<120138,120144>>, <<120146,120485>>, <<120488,120512>>, <<120514,120538>>,
      <<120540,120570>>, <<120572,120596>>, <<120598,120628>>, <<120630,120654>>, <<120656,120686>>, <<120688,120712>>,
      <<120714,120744>>, <<120746,120770>>, <<120772,120779>>, <<120782,120831>>, <<122624,122654>>, <<123136,123180>>,
      <<123191,123197>>, <<123200,123209>>, <<123214,123214>>, <<123536,123565>>, <<123584,123627>>, <<123632,123641>>,
      <<124896,124902>>, <<124904,124907>>, <<124909,124910>>, <<124912,124926>>, <<124928,125124>>, <<125127,125135>>,
      <<125184,125251>>, <<125259,125259>>, <<125264,125273>>, <<126065,126123>>, <<126125,126127>>, <<126129,126132>>,
      <<126209,126253>>, <<126255,126269>>, <<126464,126467>>, <<126469,126495>>, <<126497,126498>>, <<126500,126500>>,
      <<126503,126503>>, <<126505,126514>>, <<126516,126519>>, <<126521,126521>>, <<126523,126523>>, <<126530,126530>>,
      <<126535,126535>>, <<126537,126537>>, <<126539,126539>>, <<126541,126543>>, <<126545,126546>>, <<126548,126548>>,
      <<126551,126551>>, <<126553,126553>>, <<126555,126555>>, <<126557,126557>>, <<126559,126559>>, <<126561,126562>>,
      <<126564,126564>>, <<126567,126570>>, <<126572,126578>>, <<126580,126583>>, <<126585,126588>>, <<126590,126590>>,
      <<126592,126601>>, <<126603,126619>>, <<126625,126627>>, <<126629,126633>>, <<126635,126651>>, <<127232,127244>>,
      <<130032,130041>>, <<131072,173791>>, <<173824,177976>>, <<177984,178205>>, <<178208,183969>>, <<183984,191456>>,
      <<194560,195101>>, <<196608,201546>> }

\* The characters \w matches.
WordChars == UNION { r[1]..r[2] : r \in WordRanges }

RECURSIVE lstrip(_)
lstrip(s) ==
    IF s # <<>> /\ Head(s) \in Whitespace THEN lstrip(Tail(s)) ELSE s

RECURSIVE rstrip(_)
rstrip(s) ==
    IF s # <<>> /\ s[Len(s)] \in Whitespace THEN rstrip(SubSeq(s, 1, Len(s) - 1)) ELSE s

\* str.strip()
strip(s) == rstrip(lstrip(s))

\* The text r"^\w+" matches at the start of s, greedily; <<>> when there is no match
\* (re.search returns None: a match of \w+ is never empty).
\* Mutant of re_search_word: the text before the first parenthesis, as str.split("(")[0].
RECURSIVE re_search_word_before_paren(_)
re_search_word_before_paren(s) ==
    IF s # <<>> /\ Head(s) # 40
    THEN <<Head(s)>> \o re_search_word_before_paren(Tail(s))
    ELSE <<>>

RECURSIVE re_search_word(_)
re_search_word(s) ==
    IF s # <<>> /\ Head(s) \in WordChars
    THEN <<Head(s)>> \o re_search_word(Tail(s))
    ELSE <<>>

(***************************************************************************)
(* Module-level data of hive.py                                            *)
(***************************************************************************)

ColNameHeader == <<35,32,99,111,108,95,110,97,109,101>>   \* "# col_name"

PartitionInformation ==
    <<35,32,80,97,114,116,105,116,105,111,110,32,73,110,102,111,114,109,97,116,105,111,110>>   \* "# Partition Information"

complex_data_types ==
    { <<115,116,114,117,99,116>>, <<109,97,112>>, <<97,114,114,97,121>>, <<117,110,105,111,110>> }   \* "struct" "map" "array" "union"

\* pyhive.sqlalchemy_hive._type_map, the lookup table hive.py imports.
type_map ==
    ( <<98,111,111,108,101,97,110>> :> "Boolean" ) @@   \* "boolean"
    ( <<116,105,110,121,105,110,116>> :> "MSTinyInteger" ) @@   \* "tinyint"
    ( <<115,109,97,108,108,105,110,116>> :> "SmallInteger" ) @@   \* "smallint"
    ( <<105,110,116>> :> "Integer" ) @@   \* "int"
    ( <<98,105,103,105,110,116>> :> "BigInteger" ) @@   \* "bigint"
    ( <<102,108,111,97,116>> :> "Float" ) @@   \* "float"
    ( <<100,111,117,98,108,101>> :> "Float" ) @@   \* "double"
    ( <<115,116,114,105,110,103>> :> "String" ) @@   \* "string"
    ( <<118,97,114,99,104,97,114>> :> "String" ) @@   \* "varchar"
    ( <<99,104,97,114>> :> "String" ) @@   \* "char"
    ( <<100,97,116,101>> :> "HiveDate" ) @@   \* "date"
    ( <<116,105,109,101,115,116,97,109,112>> :> "HiveTimestamp" ) @@   \* "timestamp"
    ( <<98,105,110,97,114,121>> :> "String" ) @@   \* "binary"
    ( <<97,114,114,97,121>> :> "String" ) @@   \* "array"
    ( <<109,97,112>> :> "String" ) @@   \* "map"
    ( <<115,116,114,117,99,116>> :> "String" ) @@   \* "struct"
    ( <<117,110,105,111,110,116,121,112,101>> :> "String" ) @@   \* "uniontype"
    ( <<100,101,99,105,109,97,108>> :> "HiveDecimal" )   \* "decimal"

\* sqlalchemy.types.NullType, the fallback of an unrecognized type.
NullType == "NullType"

(***************************************************************************)
(* get_columns                                                             *)
(***************************************************************************)

\* Mutant of StripRow: the fields are not trimmed.
StripRowNoStrip(row) ==
    [k \in 1..Len(row) |-> IF Truthy(row[k]) THEN row[k] ELSE None]

\* Line 24: [col.strip() if col else None for col in row]
StripRow(row) ==
    [k \in 1..Len(row) |-> IF Truthy(row[k]) THEN strip(row[k]) ELSE None]

\* Mutant of KeepRow: the header row is kept.
KeepRowWithHeader(row) == Truthy(row[1])

\* Line 25: row[0] and row[0] != "# col_name"
KeepRow(row) == Truthy(row[1]) /\ row[1] # ColNameHeader

\* Lines 24-25: the list the loop iterates.
FilterRows(rows) ==
    LET stripped == [i \in 1..Len(rows) |-> StripRow(rows[i])]
    IN  SelectSeq(stripped, KeepRow)

\* Line 28: the test that ends the loop.
AtPartitionInformation(col_name) == col_name = PartitionInformation

\* Lines 32-38: the type of a tag, _type_map[col_type] or NullType on KeyError.
LookupType(col_type) ==
    IF col_type \in DOMAIN type_map THEN type_map[col_type] ELSE NullType

\* Mutant of LookupWarnings: the warning is emitted for every row.
LookupWarningsAlways(col_type, col_name) ==
    << [type |-> col_type, column |-> col_name] >>

\* Lines 34-37: the warnings the lookup of this tag emits.
LookupWarnings(col_type, col_name) ==
    IF col_type \in DOMAIN type_map
    THEN <<>>
    ELSE << [type |-> col_type, column |-> col_name] >>

\* Mutant of RawDataType: the tag instead of the whole type-description.
RawDataTypeTruncated(col_raw_type, col_type) ==
    IF col_type \in complex_data_types THEN col_type ELSE None

\* Lines 47-49: raw_data_type
RawDataType(col_raw_type, col_type) ==
    IF col_type \in complex_data_types THEN col_raw_type ELSE None

\* Lines 41-50: the dict appended to result.
Descriptor(col_name, col_raw_type, comment, col_type) ==
    [ name          |-> col_name,
      type          |-> LookupType(col_type),
      comment       |-> comment,
      nullable      |-> TRUE,
      default       |-> None,
      raw_data_type |-> RawDataType(col_raw_type, col_type) ]

Returned(res, warned) ==
    [status |-> "returned", result |-> res, exc |-> "none", warnings |-> warned]

Raised(e, warned) ==
    [status |-> "raised", result |-> <<>>, exc |-> e, warnings |-> warned]

\* Mutant of Loop: the partition marker is skipped (continue) instead of ending the
\* loop (break).
RECURSIVE LoopContinue(_, _, _)
LoopContinue(rows, res, warned) ==
    IF rows = <<>>
    THEN Returned(res, warned)
    ELSE LET col_name     == rows[1][1]
             col_raw_type == rows[1][2]
             comment      == rows[1][3]
             col_type     == re_search_word(col_raw_type)
         IN  IF AtPartitionInformation(col_name) THEN LoopContinue(Tail(rows), res, warned)
             ELSE IF col_raw_type = None THEN Raised("TypeError", warned)
             ELSE IF col_type = <<>> THEN Raised("AttributeError", warned)
             ELSE LoopContinue(Tail(rows),
                       Append(res, Descriptor(col_name, col_raw_type, comment, col_type)),
                       warned \o LookupWarnings(col_type, col_name))

\* Mutant of Loop: a row whose type is not recognized is warned about and dropped.
RECURSIVE LoopSkipUnknown(_, _, _)
LoopSkipUnknown(rows, res, warned) ==
    IF rows = <<>>
    THEN Returned(res, warned)
    ELSE LET col_name     == rows[1][1]
             col_raw_type == rows[1][2]
             comment      == rows[1][3]
             col_type     == re_search_word(col_raw_type)
         IN  IF AtPartitionInformation(col_name) THEN Returned(res, warned)
             ELSE IF col_raw_type = None THEN Raised("TypeError", warned)
             ELSE IF col_type = <<>> THEN Raised("AttributeError", warned)
             ELSE LoopSkipUnknown(Tail(rows),
                       IF col_type \in DOMAIN type_map
                       THEN Append(res, Descriptor(col_name, col_raw_type, comment, col_type))
                       ELSE res,
                       warned \o LookupWarnings(col_type, col_name))

\* Lines 27-52: the loop over the filtered rows, from the first of `rows` on, with the
\* result and the warnings so far. re.search(pattern, None) raises TypeError;
\* .group(0) of no match (None) raises AttributeError.
RECURSIVE Loop(_, _, _)
Loop(rows, res, warned) ==
    IF rows = <<>>
    THEN Returned(res, warned)
    ELSE LET col_name     == rows[1][1]
             col_raw_type == rows[1][2]
             comment      == rows[1][3]
             col_type     == re_search_word(col_raw_type)
         IN  IF AtPartitionInformation(col_name) THEN Returned(res, warned)
             ELSE IF col_raw_type = None THEN Raised("TypeError", warned)
             ELSE IF col_type = <<>> THEN Raised("AttributeError", warned)
             ELSE Loop(Tail(rows),
                       Append(res, Descriptor(col_name, col_raw_type, comment, col_type)),
                       warned \o LookupWarnings(col_type, col_name))

\* Lines 22-52: get_columns on the rows the driver returned.
get_columns(rows) == Loop(FilterRows(rows), <<>>, <<>>)

\* Mutant of DriverRowsAfter: the rows are trimmed and filtered in place
\* (rows[:] = ...), so the driver's list holds the filtered rows.
DriverRowsInPlace(rows) == FilterRows(rows)

\* Lines 23-25: the content of the list the driver returned, once the call is over.
\* Lines 24 and 25 build new lists and rebind the local name rows; the driver's list
\* and its row tuples are only read.
DriverRowsAfter(rows) == rows

\* Line 23: the connection once the call is over. get_columns hands it to
\* self._get_table_columns and calls nothing on it.
ConnectionAfter(conn) == conn

\* The call of get_columns, whole: it returns the list, or raises with the warnings
\* emitted so far.
GetColumns ==
    /\ pc = "called"
    /\ LET out == get_columns(described)
       IN  /\ pc' = out.status
           /\ result' = out.result
           /\ exc' = out.exc
           /\ warnings' = out.warnings
    /\ described' = DriverRowsAfter(described)
    /\ db_connection' = ConnectionAfter(db_connection)

(***************************************************************************)
(* HiveSource                                                              *)
(***************************************************************************)

DefaultDatabase == <<100,101,102,97,117,108,116>>   \* "default"

\* No instance: a value of the instances' shape that no construction yields.
NoSource ==
    [ config |-> [serviceConnection |-> [class |-> "none", database |-> None, hostPort |-> "none"]],
      metadata_config |-> "none" ]

\* The class of connection object WorkflowSource.parse_obj builds for a
\* serviceConnection of this type.
ConnectionClass(type) ==
    CASE type = "Hive"  -> "HiveSQLConnection"
      [] type = "Mysql" -> "MysqlConnection"
      [] OTHER          -> "PostgresConnection"

\* Line 76: WorkflowSource.parse_obj(config_dict), the typed configuration.
\* serviceConnection stands for config.serviceConnection.__root__.config.
parse_obj(d) ==
    [ serviceConnection |->
        [ class    |-> ConnectionClass(d.type),
          database |-> d.database,
          hostPort |-> d.hostPort ] ]

\* Line 78: isinstance(connection, HiveSQLConnection)
IsHiveSQLConnection(connection) == connection.class = "HiveSQLConnection"

\* Line 82: cls(config, metadata_config), SQLSource's constructor: the instance holds
\* the configuration and the server configuration it is given.
NewSource(config, server) == [config |-> config, metadata_config |-> server]

\* self.service_connection: the connection object inside self.config (the same object).
service_connection(src) == src.config.serviceConnection

\* Mutant of create: the connection's class is not checked.
createUnchecked(d, server) ==
    [status |-> "created", exc |-> "none", source |-> NewSource(parse_obj(d), server)]

\* Lines 74-82: HiveSource.create
create(d, server) ==
    LET config     == parse_obj(d)
        connection == config.serviceConnection
    IN  IF ~IsHiveSQLConnection(connection)
        THEN [status |-> "failed", exc |-> "InvalidSourceException", source |-> NoSource]
        ELSE [status |-> "created", exc |-> "none", source |-> NewSource(config, server)]

\* Mutant of SetDatabase: a database the configuration names is kept.
SetDatabaseIfUnset(src) ==
    IF service_connection(src).database = None
    THEN [src EXCEPT !.config.serviceConnection.database = DefaultDatabase]
    ELSE src

\* Line 71: self.service_connection.database = "default"
SetDatabase(src) ==
    [src EXCEPT !.config.serviceConnection.database = DefaultDatabase]

Create ==
    /\ pc_src = "start"
    /\ LET out == create(config_dict, metadata_config)
       IN  /\ pc_src' = out.status
           /\ create_exc' = out.exc
           /\ source' = out.source
    /\ UNCHANGED <<config_dict, metadata_config, base_ret, prepare_ret>>

\* HiveSource.prepare, line 71.
PrepareSetDatabase ==
    /\ pc_src = "created"
    /\ source' = SetDatabase(source)
    /\ pc_src' = "super"
    /\ UNCHANGED <<config_dict, metadata_config, create_exc, base_ret, prepare_ret>>

\* What the base class's prepare may return.
BaseResults == {"None", "prepared"}

\* HiveSource.prepare, line 72: super().prepare() runs and returns.
SuperPrepare ==
    /\ pc_src = "super"
    /\ \E r \in BaseResults : base_ret' = r
    /\ pc_src' = "super_done"
    /\ UNCHANGED <<config_dict, metadata_config, source, create_exc, prepare_ret>>

\* HiveSource.prepare, line 72: return of the base class's result.
PrepareReturn ==
    /\ pc_src = "super_done"
    /\ prepare_ret' = base_ret
    /\ pc_src' = "prepared"
    /\ UNCHANGED <<config_dict, metadata_config, source, create_exc, base_ret>>

(***************************************************************************)
(* Inputs                                                                  *)
(***************************************************************************)

MaxRows == 3

\* Rows (name, type-description, comment) as DESCRIBE returns them.
RowPool ==
    { << <<105,100>>, <<105,110,116>>, None >>,   \* "id" "int"
      << <<100,97,116,97>>, <<97,114,114,97,121,60,115,116,114,105,110,103,62>>, <<110,101,115,116,101,100>> >>,   \* "data" "array<string>" "nested"
      << PartitionInformation, <<>>, None >>,
      << <<116>>, <<109,97,112,95,50,233,60,105,110,116,62>>, None >>,   \* "t" "map_2\u00e9<int>"
      << <<32,110,97,109,101,32>>, <<32,118,97,114,99,104,97,114,40,51,50,41,32>>, <<32,99,32>> >>,   \* " name " " varchar(32) " " c "
      << <<120>>, <<102,111,111>>, None >>,   \* "x" "foo"
      << <<117>>, <<117,110,105,111,110,116,121,112,101,60,105,110,116,62>>, <<>> >>,   \* "u" "uniontype<int>"
      << <<118>>, <<117,110,105,111,110,60,105,110,116,62>>, None >>,   \* "v" "union<int>"
      << <<115>>, <<115,116,114,117,99,116,60,97,58,105,110,116,62>>, None >>,   \* "s" "struct<a:int>"
      << <<>>, <<105,110,116>>, None >>,   \* "int"
      << None, None, None >>,
      << <<11,160>>, <<102,111,111>>, None >>,   \* "\u000b\u00a0" "foo"
      << ColNameHeader \o <<32>>, <<100,97,116,97,95,116,121,112,101>>, <<99,111,109,109,101,110,116>> >>,   \* " " "data_type" "comment"
      << <<9>> \o PartitionInformation \o <<12,8195>>, None, None >>,   \* "\t" "\u000c\u2003"
      << <<101>>, <<>>, None >>,   \* "e"
      << <<119>>, <<32>>, None >>,   \* "w" " "
      << <<112>>, <<40,120,41>>, None >> }   \* "p" "(x)"

\* The rows of the documented scenario: id, data, the partition section, dt.
ScenarioRows ==
    << << <<105,100>>, <<105,110,116>>, None >>,   \* "id" "int"
       << <<100,97,116,97>>, <<97,114,114,97,121,60,115,116,114,105,110,103,62>>, <<110,101,115,116,101,100>> >>,   \* "data" "array<string>" "nested"
       << PartitionInformation, <<>>, None >>,
       << <<100,116>>, <<115,116,114,105,110,103>>, None >> >>   \* "dt" "string"

SeqsUpTo(S, n) == UNION { [1..k -> S] : k \in 0..n }

RowInputs == SeqsUpTo(RowPool, MaxRows) \cup {ScenarioRows}

ConnectionTypes == {"Hive", "Mysql", "Postgres"}
Databases == {None, DefaultDatabase, <<115,97,108,101,115>>, <<104,114>>}   \* "sales" "hr"
HostPorts == {"localhost:10000", "hive:10000"}
ServerConfigs == {"http://localhost:8585/api", "http://catalog:8585/api"}

ConfigDicts == [type : ConnectionTypes, database : Databases, hostPort : HostPorts]

\* The connection the caller holds: open, on the schema it selected.
OpenConnection == [closed |-> FALSE, schema |-> "default"]

ColumnsInit(inputs) ==
    /\ described \in inputs
    /\ db_connection = OpenConnection
    /\ pc = "called"
    /\ result = <<>>
    /\ exc = "none"
    /\ warnings = <<>>

SourceInit(dicts, servers) ==
    /\ config_dict \in dicts
    /\ metadata_config \in servers
    /\ source = NoSource
    /\ create_exc = "none"
    /\ pc_src = "start"
    /\ base_ret = "unset"
    /\ prepare_ret = "unset"

\* get_columns on every input.
Init ==
    /\ ColumnsInit(RowInputs)
    /\ SourceInit({[type |-> "Hive", database |-> None, hostPort |-> "localhost:10000"]},
                  {"http://localhost:8585/api"})

Next == GetColumns /\ UNCHANGED srcvars

Spec == Init /\ [][Next]_vars

\* The connector's life on every configuration.
InitSource ==
    /\ ColumnsInit({ScenarioRows})
    /\ SourceInit(ConfigDicts, ServerConfigs)

NextSource ==
    \/ Create /\ UNCHANGED colvars
    \/ PrepareSetDatabase /\ UNCHANGED colvars
    \/ SuperPrepare /\ UNCHANGED colvars
    \/ PrepareReturn /\ UNCHANGED colvars

SpecSource == InitSource /\ [][NextSource]_vars

(***************************************************************************)
(* The specification's terms, stated on the rows the driver returned       *)
(***************************************************************************)

\* A field after trimming: absent when it is missing or empty.
Field(row, k) == IF row[k] = None \/ row[k] = <<>> THEN None ELSE strip(row[k])

\* A row the specification drops: first field empty or absent, or the header marker.
IsHeaderOrEmpty(row) ==
    \/ Field(row, 1) = None
    \/ Field(row, 1) = <<>>
    \/ Field(row, 1) = ColNameHeader

IsPartitionRow(row) == Field(row, 1) = PartitionInformation

MarkerPositions(rows) == { i \in 1..Len(rows) : IsPartitionRow(rows[i]) }

\* The position of the first partition marker, Len(rows) + 1 when there is none.
FirstMarker(rows) ==
    IF MarkerPositions(rows) = {}
    THEN Len(rows) + 1
    ELSE CHOOSE i \in MarkerPositions(rows) : \A j \in MarkerPositions(rows) : i <= j

BeforeMarker(rows) == SubSeq(rows, 1, FirstMarker(rows) - 1)

NotDropped(row) == ~IsHeaderOrEmpty(row)

\* The retained rows: not dropped and before the first partition marker, in order.
RetainedRows(rows) == SelectSeq(BeforeMarker(rows), NotDropped)

\* The longest leading run of letters, digits and underscores of s.
LeadingRun(s) ==
    LET n == CHOOSE n \in 0..Len(s) :
                 /\ \A k \in 1..n : s[k] \in WordChars
                 /\ n = Len(s) \/ s[n + 1] \notin WordChars
    IN  SubSeq(s, 1, n)

\* The type tag of a row.
TagOf(row) == LeadingRun(Field(row, 2))

ComplexTags ==
    { <<115,116,114,117,99,116>>, <<109,97,112>>, <<97,114,114,97,121>>, <<117,110,105,111,110>> }   \* "struct" "map" "array" "union"

\* What the call left behind.
Outcome == [status |-> pc, result |-> result, exc |-> exc, warnings |-> warnings]

\* The warnings the retained rows call for, in order: one per row whose tag the
\* lookup table lacks, naming the tag and the column.
RECURSIVE ExpectedWarnings(_)
ExpectedWarnings(rows) ==
    IF rows = <<>> THEN <<>>
    ELSE (IF TagOf(rows[1]) \in DOMAIN type_map
          THEN <<>>
          ELSE << [type |-> TagOf(rows[1]), column |-> Field(rows[1], 1)] >>)
         \o ExpectedWarnings(Tail(rows))

(***************************************************************************)
(* Claims about get_columns (specification Spec)                           *)
(***************************************************************************)

\* C1: partition hard stop. When a row's trimmed first field is "# Partition
\* Information", the call leaves exactly what it leaves on the rows strictly before
\* the first such row, whatever the marker row and the rows after it contain: they
\* build no descriptor, emit no warning and raise nothing, and the result holds no
\* more descriptors than there are rows before the marker.
C1_PartitionHardStop ==
    (pc # "called" /\ MarkerPositions(described) # {}) =>
        /\ Outcome = get_columns(BeforeMarker(described))
        /\ Len(result) <= FirstMarker(described) - 1
        /\ \A i \in 1..Len(result) :
               \E j \in 1..(FirstMarker(described) - 1) :
                   result[i].name = Field(described[j], 1)

\* C1 witness: a returned call whose rows hold a partition marker followed by an
\* ordinary column row (not dropped, with a type), and a descriptor before it.
C1_Witness ==
    /\ pc = "returned"
    /\ Len(result) >= 1
    /\ \E k, j \in 1..Len(described) :
           /\ k < j
           /\ IsPartitionRow(described[k])
           /\ NotDropped(described[j])
           /\ ~IsPartitionRow(described[j])
           /\ TagOf(described[j]) # <<>>

\* The rows with the dropped ones (trimmed first field empty, absent or "# col_name")
\* removed.
WithoutDropped(rows) == SelectSeq(rows, NotDropped)

\* The rows with those removed whose first field, as the driver returned it, is
\* empty, absent or exactly "# col_name".
IsLiterallyDropped(row) == row[1] = None \/ row[1] = <<>> \/ row[1] = ColNameHeader

NotLiterallyDropped(row) == ~IsLiterallyDropped(row)

\* C2: header and empty rows have no effect. The call leaves (result, warnings,
\* exception) exactly what it leaves on the rows with every dropped row removed, and
\* the number of descriptors never exceeds the number of rows that are not dropped.
C2_DroppedRowsHaveNoEffect ==
    pc # "called" =>
        /\ Outcome = get_columns(WithoutDropped(described))
        /\ Outcome = get_columns(SelectSeq(described, NotLiterallyDropped))
        /\ Len(result) <= Len(WithoutDropped(described))

\* C2 witness: a returned call whose first row is the header row, before a row that
\* produced a descriptor and before a partition marker.
C2_Witness ==
    /\ pc = "returned"
    /\ Len(result) >= 1
    /\ Field(described[1], 1) = ColNameHeader
    /\ MarkerPositions(described) # {}

\* C2 second case (reached as well): an empty-name row and an absent-name row before a
\* row that produced a descriptor.
C2_EmptyReached ==
    /\ pc = "returned"
    /\ Len(result) >= 1
    /\ \E e, a \in 1..Len(described) : described[e][1] = <<>> /\ described[a][1] = None

\* C3: type-tag extraction. In a returned call, descriptor i comes from retained row
\* i, and the tag that decided its type and its complex-type test is the longest
\* leading run of letters, digits and underscores of the row's type-description;
\* every warning names such a tag. "varchar(32)" gives "varchar" and
\* "array<string>" gives "array".
C3_TypeTagIsLeadingWordRun ==
    /\ re_search_word(<<118,97,114,99,104,97,114,40,51,50,41>>) = <<118,97,114,99,104,97,114>>   \* "varchar(32)" "varchar"
    /\ re_search_word(<<97,114,114,97,121,60,115,116,114,105,110,103,62>>) = <<97,114,114,97,121>>   \* "array<string>" "array"
    /\ pc = "returned" =>
        /\ Len(result) = Len(RetainedRows(described))
        /\ \A i \in 1..Len(result) :
               LET tag == TagOf(RetainedRows(described)[i])
               IN  /\ tag # <<>>
                   /\ result[i].type =
                          (IF tag \in DOMAIN type_map THEN type_map[tag] ELSE NullType)
                   /\ (result[i].raw_data_type # None) <=> (tag \in ComplexTags)
        /\ \A w \in 1..Len(warnings) :
               \E i \in 1..Len(result) :
                   warnings[w].type = TagOf(RetainedRows(described)[i])

\* C3 witness: a returned call with a descriptor whose type-description carries a
\* parenthesized suffix, one with a nested-type suffix and one whose tag holds a digit,
\* an underscore and a letter outside ASCII.
C3_Witness ==
    /\ pc = "returned"
    /\ \E i, j, k \in 1..Len(result) :
           /\ Field(RetainedRows(described)[i], 2) = <<118,97,114,99,104,97,114,40,51,50,41>>   \* "varchar(32)"
           /\ result[i].type = "String"
           /\ Field(RetainedRows(described)[j], 2) = <<97,114,114,97,121,60,115,116,114,105,110,103,62>>   \* "array<string>"
           /\ TagOf(RetainedRows(described)[k]) = <<109,97,112,95,50,233>>   \* "map_2\u00e9"

\* C4: raw_data_type. In a returned call, a descriptor's raw_data_type is present
\* exactly when its row's tag is struct, map, array or union; when present it is the
\* row's whole (trimmed) type-description, whether or not the lookup table has the tag.
C4_RawDataTypeOnlyForComplex ==
    pc = "returned" =>
        \A i \in 1..Len(result) :
            LET row == RetainedRows(described)[i]
            IN  result[i].raw_data_type =
                    (IF TagOf(row) \in ComplexTags THEN Field(row, 2) ELSE None)

\* C4 witness: a returned call with a complex tag the table lacks (union), a complex
\* tag it has, and a tag that is not complex (uniontype).
C4_Witness ==
    /\ pc = "returned"
    /\ \E i, j, k \in 1..Len(result) :
           /\ result[i].raw_data_type # None /\ result[i].type = NullType
           /\ result[j].raw_data_type # None /\ result[j].type = "String"
           /\ result[k].raw_data_type = None
           /\ TagOf(RetainedRows(described)[k]) = <<117,110,105,111,110,116,121,112,101>>   \* "uniontype"

\* The retained rows that have no tag at all (type-description absent, empty or not
\* starting with a letter, digit or underscore).
TaglessPositions(rows) ==
    { i \in 1..Len(RetainedRows(rows)) : TagOf(RetainedRows(rows)[i]) = <<>> }

FirstTagless(rows) ==
    CHOOSE i \in TaglessPositions(rows) : \A j \in TaglessPositions(rows) : i <= j

\* C5: unrecognized types are recovered. In a returned call every retained row has its
\* descriptor: the fallback NullType when the table lacks its tag, the table's entry
\* otherwise; and the warnings are exactly one per retained row whose tag the table
\* lacks, in row order, naming the tag and the column name. A lookup failure never
\* makes the call raise: a call raises exactly when a retained row has no tag at all,
\* and the rows before that one have been warned about in the same way.
C5_UnrecognizedTypeRecovered ==
    /\ pc = "returned" =>
        /\ Len(result) = Len(RetainedRows(described))
        /\ \A i \in 1..Len(result) :
               LET tag == TagOf(RetainedRows(described)[i])
               IN  IF tag \in DOMAIN type_map
                   THEN result[i].type = type_map[tag]
                   ELSE result[i].type = NullType
        /\ warnings = ExpectedWarnings(RetainedRows(described))
    /\ pc # "called" => (pc = "raised" <=> TaglessPositions(described) # {})
    /\ pc = "raised" =>
        warnings = ExpectedWarnings(SubSeq(RetainedRows(described), 1, FirstTagless(described) - 1))

\* C5 witness: a returned call where a row with an unrecognized tag is followed by a
\* row with a recognized one, both in the result, with one warning.
C5_Witness ==
    /\ pc = "returned"
    /\ Len(result) >= 2
    /\ result[1].type = NullType
    /\ result[2].type = "Integer"
    /\ warnings = << [type |-> <<102,111,111>>, column |-> <<120>>] >>   \* "foo" "x"

\* C6: result shape and order. A returned call has one descriptor per retained row, in
\* row order; its name is the trimmed first field, its comment the trimmed third
\* field, nullable is true and default is absent. The documented rows (id, data, the
\* partition section, dt) give exactly the descriptors of id and data.
C6_OneDescriptorPerRetainedRow ==
    /\ pc = "returned" =>
        /\ Len(result) = Len(RetainedRows(described))
        /\ \A i \in 1..Len(result) :
               /\ result[i].name = Field(RetainedRows(described)[i], 1)
               /\ result[i].comment = Field(RetainedRows(described)[i], 3)
               /\ result[i].nullable = TRUE
               /\ result[i].default = None
    /\ (described = ScenarioRows /\ pc # "called") =>
        /\ pc = "returned"
        /\ result =
             << [ name |-> <<105,100>>, type |-> "Integer", comment |-> None,   \* "id"
                  nullable |-> TRUE, default |-> None, raw_data_type |-> None ],
                [ name |-> <<100,97,116,97>>, type |-> "String",   \* "data"
                  comment |-> <<110,101,115,116,101,100>>,   \* "nested"
                  nullable |-> TRUE, default |-> None,
                  raw_data_type |-> <<97,114,114,97,121,60,115,116,114,105,110,103,62>> ] >>   \* "array<string>"

\* C6 witness: the documented rows, returned with two descriptors.
C6_Witness ==
    /\ pc = "returned"
    /\ described = ScenarioRows
    /\ Len(result) = 2

\* C6 second case (reached as well): three retained rows around dropped ones keep
\* their order and a name is trimmed.
C6_OrderReached ==
    /\ pc = "returned"
    /\ Len(result) = 3
    /\ result[1].name = <<110,97,109,101>>   \* "name"

\* C9: get_columns raises no exception of its own, whatever the fields hold.
C9_NeverRaises == pc # "raised"

\* The warnings of a call come from its retained rows: in a returned call the number
\* of warnings is the number of descriptors whose type is NullType; in every call,
\* returned or raised, each warning names the column and the unrecognized tag of a row
\* that is not dropped and lies before the partition marker, and there are no more
\* warnings than such rows.
WarningsFromRetainedRows ==
    /\ pc = "returned" =>
        Len(warnings) = Cardinality({ i \in 1..Len(result) : result[i].type = NullType })
    /\ Len(warnings) <= Len(RetainedRows(described))
    /\ \A w \in 1..Len(warnings) :
           \E i \in 1..Len(RetainedRows(described)) :
               /\ warnings[w].column = Field(RetainedRows(described)[i], 1)
               /\ warnings[w].type = TagOf(RetainedRows(described)[i])
               /\ warnings[w].type \notin DOMAIN type_map

\* C10: warnings come only from retained rows, and the call changes nothing else.
\* The warnings of every call are those of its retained rows (as stated above), and
\* every step, the call of get_columns included, leaves the rows the driver returned
\* and the connection exactly as they were before it.
C10_WarningsOnlyFromRetainedRows ==
    /\ []WarningsFromRetainedRows
    /\ [][described' = described /\ db_connection' = db_connection]_vars

\* C10 witness: a returned call with one warning, although a row after the partition
\* marker carries an unrecognized tag too; the driver's rows still differ from
\* the trimmed and filtered list of lines 24-25.
C10_Witness ==
    /\ pc = "returned"
    /\ Len(warnings) = 1
    /\ db_connection = OpenConnection
    /\ FilterRows(described) # described
    /\ \E m, a \in 1..Len(described) :
           /\ IsPartitionRow(described[m])
           /\ m < a
           /\ NotDropped(described[a])
           /\ TagOf(described[a]) = <<102,111,111>>   \* "foo"

\* C10 second case (reached as well): one warning, although a dropped row carries an
\* unrecognized tag too.
C10_DroppedReached ==
    /\ pc = "returned"
    /\ Len(warnings) = 1
    /\ \E d \in 1..Len(described) :
           /\ IsHeaderOrEmpty(described[d])
           /\ TagOf(described[d]) # <<>>
           /\ TagOf(described[d]) \notin DOMAIN type_map

(***************************************************************************)
(* Claims about HiveSource (specification SpecSource)                      *)
(***************************************************************************)

\* C7: create. Once create has run: on a configuration whose connection is not Hive's
\* it has raised InvalidSourceException and there is no instance; on a Hive connection
\* it has raised nothing, and the instance holds the server configuration it was given
\* and a Hive connection with the configuration's host and, until prepare, database.
C7_CreateChecksConnectionKind ==
    pc_src # "start" =>
        IF config_dict.type = "Hive"
        THEN /\ pc_src # "failed"
             /\ create_exc = "none"
             /\ source # NoSource
             /\ source.metadata_config = metadata_config
             /\ service_connection(source).class = "HiveSQLConnection"
             /\ service_connection(source).hostPort = config_dict.hostPort
             /\ pc_src = "created" =>
                    service_connection(source).database = config_dict.database
        ELSE /\ pc_src = "failed"
             /\ create_exc = "InvalidSourceException"
             /\ source = NoSource

\* C7 witness: create has failed on a MySQL connection.
C7_Witness ==
    /\ pc_src = "failed"
    /\ config_dict.type = "Mysql"
    /\ create_exc = "InvalidSourceException"

\* C7 second case (reached as well): create has succeeded on a Hive connection.
C7_CreatedReached ==
    /\ pc_src = "created"
    /\ config_dict.type = "Hive"
    /\ source.metadata_config = metadata_config

\* C8: prepare ordering. From the moment the base class's prepare starts, and in the
\* prepared state, the connection's database is "default", whatever the configuration
\* held; and prepare returns what the base class's prepare returned.
C8_DatabaseDefaultBeforeBasePrepare ==
    /\ pc_src \in {"super", "super_done", "prepared"} =>
           service_connection(source).database = DefaultDatabase
    /\ pc_src = "prepared" => (prepare_ret = base_ret /\ base_ret \in BaseResults)

\* C8 witness: prepared, from a configuration that named another database.
C8_Witness ==
    /\ pc_src = "prepared"
    /\ config_dict.database = <<115,97,108,101,115>>   \* "sales"
    /\ prepare_ret = "prepared"

====
